---------------------------- MODULE Spec2Model ----------------------------
(***************************************************************************)
(* FloraAdam (src/pytorch_fob/optimizers/flora/optimizer.py): the          *)
(* optimizer's construction, its per-parameter state dictionary and the    *)
(* step() update loop, with the exceptions the Python code can raise.      *)
(*                                                                         *)
(* Encoding of Python values:                                              *)
(*   - an optional value is a sequence: None is <<>>, the value v is <<v>>;*)
(*   - a state dict is a function whose DOMAIN is the set of its keys;     *)
(*   - a tensor is a record [shape, val]: shape is its torch shape, val    *)
(*     the sequence of in-place operations applied to it since it was      *)
(*     zero-filled (floats are kept symbolic);                             *)
(*   - an exception is its class name, NoError when none was raised.       *)
(***************************************************************************)
EXTENDS Integers, Sequences, FiniteSets, TLC

VARIABLES
    constructed,    \* FloraAdam.__init__ has returned an instance
    param_groups,   \* self.param_groups: sequence of group dicts
    state,          \* self.state: parameter -> state dict
    shape,          \* p.shape (= p.grad.shape) of every parameter
    requires_grad,  \* p.requires_grad of every parameter
    grad,           \* p.grad of every parameter (None or a gradient value)
    value,          \* p's data: the in-place updates applied to it
    raised,         \* the exception the last step() call ended with
    loss,           \* what the last step() call returned (None or the loss)
    closureLog,     \* the last step() call: whether a closure was supplied
                    \* and the invocations of it, in order
    calls,          \* number of step() calls made so far
    gradCalls,      \* per parameter: step() calls made while it had a gradient
    initMode,       \* per parameter: the branch of line 102 taken when its
                    \* state was initialized (None before that)
    lastMode,       \* per parameter: the branch of line 123 taken by its
                    \* latest update (None before its first update)
    polRank,        \* policy alone: the group's rank
    polShape,       \* policy alone: the shape argument
    polDone,        \* policy alone: _should_compress has been applied
    polResult       \* policy alone: what _should_compress returned or raised

vars == << constructed, param_groups, state, shape, requires_grad, grad, value,
           raised, loss, closureLog, calls, gradCalls, initMode, lastMode,
           polRank, polShape, polDone, polResult >>

optVars == << constructed, param_groups, state, shape, requires_grad, grad,
              value, raised, loss, closureLog, calls, gradCalls, initMode,
              lastMode >>

polVars == << polRank, polShape, polDone, polResult >>

---------------------------------------------------------------------------
(* Python values *)

None == << >>

Some(v) == << v >>

NoError == "NoError"

\* Python's a % b for integers: the result takes the sign of the divisor,
\* and b = 0 raises ZeroDivisionError (handled by the caller).
PyMod(a, b) == IF b > 0 THEN a % b ELSE 0 - ((0 - a) % (0 - b))

RECURSIVE PyMin(_)
PyMin(s) == IF Len(s) = 1 THEN s[1]
            ELSE LET m == PyMin(Tail(s)) IN IF s[1] <= m THEN s[1] ELSE m

RECURSIVE PyMax(_)
PyMax(s) == IF Len(s) = 1 THEN s[1]
            ELSE LET m == PyMax(Tail(s)) IN IF s[1] >= m THEN s[1] ELSE m

---------------------------------------------------------------------------
(* Bounds of the model *)

\* step() calls explored
MaxCalls == 3

\* Stand-in for torch.iinfo(torch.int64).max, the exclusive upper end of the
\* range next_seed draws from (line 28): seeds drawn by next_seed lie in
\* 0 .. SeedSpace - 1.
SeedSpace == 16

---------------------------------------------------------------------------
(* Seed derivation, lines 22-29 *)

\* next_seed seeds a private generator with `seed`, draws 15 integers of
\* [0, int64 max) and returns the last one: a fixed function of the seed.
\* The generator is torch's; it is modelled by a full-period congruential
\* map on 0 .. SeedSpace - 1, which like the generator's output is a
\* deterministic scrambling of the seed and not the identity.
next_seed(seed) == (5 * seed + 3) % SeedSpace

---------------------------------------------------------------------------
(* Compression policy, lines 66-76 *)

\* What a Python call yields: the exception it raised, or its value.
Returned(v) == [raised |-> NoError, value |-> v]

Raised(e) == [raised |-> e, value |-> FALSE]

\* should_compress with the ratio test strict (max/min < 4).
should_compress_StrictRatio(rank, param_shape) ==
    IF rank = None THEN Returned(FALSE)
    ELSE IF ~(rank[1] > 0) THEN Returned(FALSE)
    ELSE IF ~(Len(param_shape) = 2) THEN Returned(FALSE)
    ELSE IF ~(PyMin(param_shape) >= rank[1]) THEN Returned(FALSE)
    ELSE Returned(PyMax(param_shape) < 4 * PyMin(param_shape))

\* should_compress with min(shape) >= rank tested before the shape is known
\* to have two dimensions and the rank to be positive.
should_compress_MinFirst(rank, param_shape) ==
    LET factored == Len(param_shape) = 2
    IN  IF rank = None THEN Returned(FALSE)
        ELSE IF Len(param_shape) = 0 THEN Raised("ValueError")
        ELSE IF ~(PyMin(param_shape) >= rank[1]) THEN Returned(FALSE)
        ELSE IF ~(rank[1] > 0) THEN Returned(FALSE)
        ELSE IF ~factored THEN Returned(FALSE)
        ELSE IF PyMin(param_shape) = 0 THEN Raised("ZeroDivisionError")
        ELSE Returned(PyMax(param_shape) <= 4 * PyMin(param_shape))

\* The chain of `and` evaluates left to right and stops at the first false
\* operand; min() of an empty shape raises ValueError and a division by a
\* zero dimension raises ZeroDivisionError when they are evaluated.
\* max/min <= 4 is a float comparison, exact for dimensions of this size:
\* max / min <= 4 iff max <= 4 * min when min > 0.
should_compress(rank, param_shape) ==
    LET factored == Len(param_shape) = 2
    IN  IF rank = None THEN Returned(FALSE)
        ELSE IF ~(rank[1] > 0) THEN Returned(FALSE)
        ELSE IF ~factored THEN Returned(FALSE)
        ELSE IF Len(param_shape) = 0 THEN Raised("ValueError")
        ELSE IF ~(PyMin(param_shape) >= rank[1]) THEN Returned(FALSE)
        ELSE IF PyMin(param_shape) = 0 THEN Raised("ZeroDivisionError")
        ELSE Returned(PyMax(param_shape) <= 4 * PyMin(param_shape))

---------------------------------------------------------------------------
(* Tensors *)

\* torch.zeros(shape) / torch.zeros_like(p)
Zeros(sh) == [shape |-> sh, val |-> << >>]

\* An in-place operation on tensor t: the shape stays, the value changes.
InPlace(t, name, args) ==
    [t EXCEPT !.val = Append(@, [op |-> name, arg |-> args])]

\* torch broadcasting for an in-place operation into a tensor of shape dst:
\* src is aligned to the trailing dimensions of dst and each of its
\* dimensions must equal the destination's or be 1.
Broadcastable(src, dst) ==
    /\ Len(src) <= Len(dst)
    /\ \A i \in 1..Len(src) :
          LET d == dst[Len(dst) - Len(src) + i]
          IN  src[i] = d \/ src[i] = 1

\* CShape with the two orientations exchanged.
CShape_Swapped(rank, grad_shape) ==
    IF grad_shape[1] < grad_shape[Len(grad_shape)]
    THEN << grad_shape[1], rank >>
    ELSE << rank, grad_shape[Len(grad_shape)] >>

\* Shape of the compressed first moment, lines 103-106.
CShape(rank, grad_shape) ==
    IF grad_shape[1] < grad_shape[Len(grad_shape)]
    THEN << rank, grad_shape[Len(grad_shape)] >>
    ELSE << grad_shape[1], rank >>

\* _down_proj, lines 124-142: (rank x shape[0]) @ tensor when the tensor is
\* wide, tensor @ (shape[-1] x rank) otherwise; the projection is built from
\* the tensor's own shape, so the product is always defined.
DownProjShape(rank, tshape) ==
    IF tshape[1] < tshape[Len(tshape)]
    THEN << rank, tshape[Len(tshape)] >>
    ELSE << tshape[1], rank >>

\* _up_proj, lines 144-161: (shape[0] x rank) @ ctensor when `shape` is wide,
\* ctensor @ (rank x shape[-1]) otherwise. The matrix product raises
\* RuntimeError when the inner dimensions differ.
UpProj(rank, sh, cshape) ==
    IF sh[1] < sh[Len(sh)]
    THEN IF cshape[1] = rank
         THEN Returned(<< sh[1], cshape[2] >>)
         ELSE [raised |-> "RuntimeError", value |-> << >>]
    ELSE IF cshape[2] = rank
         THEN Returned(<< cshape[1], sh[Len(sh)] >>)
         ELSE [raised |-> "RuntimeError", value |-> << >>]

\* The seed slot of an operation that used no projection.
NoSeed == 0 - 1

---------------------------------------------------------------------------
(* Inputs explored *)

Params == {1, 2}

\* The parameter groups handed to the constructor: the parameters of each
\* group, in order.
Layouts == { << <<1, 2>> >>, << <<2>>, <<1>> >> }

\* Shapes of the parameter tensors: a wide matrix with a vector, a tall
\* matrix with a wide one.
ShapeChoices ==
    { (1 :> <<2, 4>>) @@ (2 :> <<3>>), (1 :> <<4, 2>>) @@ (2 :> <<2, 4>>) }

\* Constructor arguments. lr is in thousandths, betas are pairs in
\* thousandths: <<900, 999>> is the default (0.9, 0.999).
Lrs == { None, Some(0), Some(1) }

BetaPairs == { <<900, 999>>, <<1000, 999>> }

Ranks == { None, Some(0), Some(1), Some(2) }

Kappas == { 0 - 2, 0, 2 }

\* Base seeds: the default 0 and another one.
BaseSeeds == { 0, 5 }

Config(lr, betas, rank, kappa, seed) ==
    [lr |-> lr, betas |-> betas, rank |-> rank, kappa |-> kappa, seed |-> seed]

\* The argument combinations explored: every rank with otherwise usual
\* arguments, and each other argument (lr, betas, kappa, seed) varied alone
\* with compression on (lr unset also with compression off).
Configs ==
    { Config(Some(1), <<900, 999>>, r, 2, 0) : r \in Ranks }
    \cup { Config(None, <<900, 999>>, None, 2, 0) }
    \cup { Config(lr, <<900, 999>>, Some(1), 2, 0) : lr \in Lrs }
    \cup { Config(Some(1), b, Some(1), 2, 0) : b \in BetaPairs }
    \cup { Config(Some(1), <<900, 999>>, Some(1), k, 0) : k \in Kappas }
    \cup { Config(Some(1), <<900, 999>>, Some(1), 2, sd) : sd \in BaseSeeds }

\* Values the groups' "rank" is set to after construction.
EditRanks == { None, Some(1) }

\* Values a gradient can take (symbolic).
GradVals == { 1 }

\* Values a closure can return as the loss (symbolic).
LossVals == { 1 }

\* The closures handed to step(): a closure recomputes the loss and its
\* gradients (every parameter that requires a gradient receives one, any
\* other parameter holds none) and returns the loss.
Closures(req) ==
    { [grads |-> [p \in Params |-> IF req[p] THEN Some(v) ELSE None],
       loss |-> l] : v \in GradVals, l \in LossVals }

\* eps, in units of 1e-8 (the default of line 43)
Eps == 1

---------------------------------------------------------------------------
(* The update of one parameter, lines 92-218 *)

\* What the update of one parameter leaves behind: the parameter's state
\* dict, the parameter's value and the exception that ended it, if any.
Outcome(s, v, e) == [s |-> s, v |-> v, err |-> e]

\* State initialization, lines 99-117. The state dict is initialized when it
\* is empty or holds no "step" (it may already hold the "seed").
InitState(group, p_shape, compress, s) ==
    IF "step" \in DOMAIN s THEN s
    ELSE ("step" :> 0)
         @@ ("exp_avg" :> IF compress
                          THEN Zeros(CShape(group.rank[1], p_shape))
                          ELSE Zeros(p_shape))
         @@ ("exp_avg_sq" :> Zeros(p_shape))
         @@ s

\* The rotation test taken one update early.
TimeForNewSeed_OffByOne(step, kappa) == PyMod(step + 1, kappa) = 0

\* The rotation test of line 185 (kappa # 0).
TimeForNewSeed(step, kappa) == PyMod(step, kappa) = 0

\* Rotate with the seed stored before the moment is re-projected, the
\* up-projection reading the stored seed.
Rotate_SeedFirst(group, p_shape, cur, s, v) ==
    IF group.kappa = 0 THEN Outcome(s, v, "ZeroDivisionError")
    ELSE IF ~TimeForNewSeed(s["step"], group.kappa) THEN Outcome(s, v, NoError)
    ELSE LET nxt  == next_seed(s["seed"])
             rank == group.rank[1]
             up   == UpProj(rank, p_shape, s["exp_avg"].shape)
         IN  IF up.raised # NoError THEN Outcome(s, v, up.raised)
             ELSE IF ~Broadcastable(DownProjShape(rank, up.value),
                                    s["exp_avg"].shape)
             THEN Outcome(s, v, "RuntimeError")
             ELSE Outcome(
                    [s EXCEPT !["exp_avg"] = InPlace(@, "copy_", <<nxt, nxt>>),
                              !["seed"] = nxt],
                    v, NoError)

\* Rotation, lines 185-202: raised by the modulo when kappa is 0; when the
\* test passes the first moment is projected up with the current seed, down
\* with the next seed and copied back in place, then the seed is stored.
Rotate(group, p_shape, cur, s, v) ==
    IF group.kappa = 0 THEN Outcome(s, v, "ZeroDivisionError")
    ELSE IF ~TimeForNewSeed(s["step"], group.kappa) THEN Outcome(s, v, NoError)
    ELSE LET nxt  == next_seed(s["seed"])
             rank == group.rank[1]
             up   == UpProj(rank, p_shape, s["exp_avg"].shape)
         IN  IF up.raised # NoError THEN Outcome(s, v, up.raised)
             ELSE IF ~Broadcastable(DownProjShape(rank, up.value),
                                    s["exp_avg"].shape)
             THEN Outcome(s, v, "RuntimeError")
             ELSE Outcome(
                    [s EXCEPT !["exp_avg"] = InPlace(@, "copy_", <<cur, nxt>>),
                              !["seed"] = nxt],
                    v, NoError)

\* beta ** t for a beta in thousandths, in thousandths: fixed-point
\* arithmetic standing for the floats, each product rounded down.
RECURSIVE Pow(_, _)
Pow(beta, t) == IF t <= 0 THEN 1000 ELSE (beta * Pow(beta, t - 1)) \div 1000

\* BiasCorrection taken with the step count before its increment.
BiasCorrection_PreIncrement(beta, t) == 1000 - Pow(beta, t - 1)

\* Lines 172-173 and 211-212: bias_correction = 1 - beta ** t, in
\* thousandths, t being state['step'] after the increment of line 120.
BiasCorrection(beta, t) == 1000 - Pow(beta, t)

\* Compressed path, lines 163-202, for a state dict whose step is already
\* incremented.
CompressedPath(group, p_shape, g, s, v) ==
    IF "seed" \notin DOMAIN s THEN Outcome(s, v, "KeyError")
    ELSE
    LET cur   == s["seed"]
        rank  == group.rank[1]
        beta1 == group.betas[1]
        beta2 == group.betas[2]
        t     == s["step"]
        s1    == [s EXCEPT !["exp_avg"] = InPlace(@, "mul_", <<beta1>>)]
        s2    == [s1 EXCEPT !["exp_avg"] =
                     InPlace(@, "add_", <<g, cur, 1000 - beta1>>)]
        s3    == [s2 EXCEPT !["exp_avg_sq"] =
                     InPlace(InPlace(@, "mul_", <<beta2>>),
                             "addcmul_", <<g, g, 1000 - beta2>>)]
        up    == UpProj(rank, p_shape, s3["exp_avg"].shape)
    IN  IF ~Broadcastable(DownProjShape(rank, p_shape), s["exp_avg"].shape)
        THEN Outcome(s1, v, "RuntimeError")
        ELSE IF up.raised # NoError THEN Outcome(s3, v, up.raised)
        ELSE IF group.lr = None THEN Outcome(s3, v, "TypeError")
        ELSE IF ~Broadcastable(up.value, p_shape)
        THEN Outcome(s3, v, "RuntimeError")
        ELSE Rotate(group, p_shape, cur, s3,
                    Append(v, [op |-> "addcdiv_",
                               arg |-> <<t, group.lr[1], cur, group.eps,
                                         BiasCorrection(beta1, t),
                                         BiasCorrection(beta2, t)>>]))

\* FullPath with the first moment accumulated with the second moment's
\* weight 1 - beta2.
FullPath_WrongAlpha(group, p_shape, g, s, v) ==
    LET beta1 == group.betas[1]
        beta2 == group.betas[2]
        t     == s["step"]
        s1    == [s EXCEPT !["exp_avg"] = InPlace(@, "mul_", <<beta1>>)]
        s2    == [s1 EXCEPT !["exp_avg"] =
                     InPlace(@, "add_", <<g, NoSeed, 1000 - beta2>>)]
        s3    == [s2 EXCEPT !["exp_avg_sq"] =
                     InPlace(InPlace(@, "mul_", <<beta2>>),
                             "addcmul_", <<g, g, 1000 - beta2>>)]
    IN  IF ~Broadcastable(p_shape, s["exp_avg"].shape)
        THEN Outcome(s1, v, "RuntimeError")
        ELSE IF group.lr = None THEN Outcome(s3, v, "TypeError")
        ELSE IF ~Broadcastable(s3["exp_avg"].shape, p_shape)
        THEN Outcome(s3, v, "RuntimeError")
        ELSE Outcome(s3,
                     Append(v, [op |-> "addcdiv_",
                                arg |-> <<t, group.lr[1], NoSeed, group.eps,
                                          BiasCorrection(beta1, t),
                                          BiasCorrection(beta2, t)>>]),
                     NoError)

\* Full path, lines 205-218.
FullPath(group, p_shape, g, s, v) ==
    LET beta1 == group.betas[1]
        beta2 == group.betas[2]
        t     == s["step"]
        s1    == [s EXCEPT !["exp_avg"] = InPlace(@, "mul_", <<beta1>>)]
        s2    == [s1 EXCEPT !["exp_avg"] =
                     InPlace(@, "add_", <<g, NoSeed, 1000 - beta1>>)]
        s3    == [s2 EXCEPT !["exp_avg_sq"] =
                     InPlace(InPlace(@, "mul_", <<beta2>>),
                             "addcmul_", <<g, g, 1000 - beta2>>)]
    IN  IF ~Broadcastable(p_shape, s["exp_avg"].shape)
        THEN Outcome(s1, v, "RuntimeError")
        ELSE IF group.lr = None THEN Outcome(s3, v, "TypeError")
        ELSE IF ~Broadcastable(s3["exp_avg"].shape, p_shape)
        THEN Outcome(s3, v, "RuntimeError")
        ELSE Outcome(s3,
                     Append(v, [op |-> "addcdiv_",
                                arg |-> <<t, group.lr[1], NoSeed, group.eps,
                                          BiasCorrection(beta1, t),
                                          BiasCorrection(beta2, t)>>]),
                     NoError)

\* Lines 123 and 204: the path is chosen by this call's should_compress.
ChoosePath(compress, group, p_shape, g, s, v) ==
    IF compress THEN CompressedPath(group, p_shape, g, s, v)
                ELSE FullPath(group, p_shape, g, s, v)

\* UpdateParam with the step counter advanced before the gradient test.
UpdateParam_CountsSkipped(group, p_shape, pgrad, s, v) ==
    IF pgrad = None
    THEN Outcome(IF "step" \in DOMAIN s THEN [s EXCEPT !["step"] = @ + 1]
                 ELSE s, v, NoError)
    ELSE LET sc == should_compress(group.rank, p_shape)
             s0 == InitState(group, p_shape, sc.value, s)
             s1 == [s0 EXCEPT !["step"] = @ + 1]
         IN  ChoosePath(sc.value, group, p_shape, pgrad[1], s1, v)

\* The body of the loop over a group's parameters, lines 90-218, for a
\* parameter with gradient pgrad (None: the parameter is skipped).
UpdateParam(group, p_shape, pgrad, s, v) ==
    IF pgrad = None THEN Outcome(s, v, NoError)
    ELSE LET sc == should_compress(group.rank, p_shape)
         IN  IF sc.raised # NoError THEN Outcome(s, v, sc.raised)
             ELSE LET s0 == InitState(group, p_shape, sc.value, s)
                      s1 == [s0 EXCEPT !["step"] = @ + 1]
                  IN  ChoosePath(sc.value, group, p_shape, pgrad[1], s1, v)

---------------------------------------------------------------------------
(* Construction, lines 38-64 *)

\* An empty Python dict.
EmptyDict == [k \in {} |-> 0]

\* The (group index, parameter) pairs in the order of the two nested loops
\* `for group in self.param_groups: for p in group["params"]`.
RECURSIVE IterationOrder(_, _)
IterationOrder(groups, gi) ==
    IF gi > Len(groups) THEN << >>
    ELSE [i \in 1..Len(groups[gi].params) |-> <<gi, groups[gi].params[i]>>]
         \o IterationOrder(groups, gi + 1)

\* InitialState with the counter never incremented.
InitialState_NoOrdinal(groups, seed, req) ==
    [p \in Params |-> IF req[p] THEN ("seed" :> seed) ELSE EmptyDict]

\* Lines 59-64: params_idx starts at `seed` and is incremented for every
\* parameter met; a parameter that requires a gradient gets the counter as
\* its seed, any other parameter keeps an empty state dict.
InitialState(groups, seed, req) ==
    LET order == IterationOrder(groups, 1)
    IN  [p \in Params |->
           LET i == CHOOSE j \in 1..Len(order) : order[j][2] = p
           IN  IF req[p] THEN ("seed" :> (seed + i)) ELSE EmptyDict]

\* Lines 49-57: every group takes the constructor's defaults.
MakeGroups(layout, lr, betas, rank, kappa) ==
    [gi \in 1..Len(layout) |->
        [params |-> layout[gi], lr |-> lr, betas |-> betas, eps |-> Eps,
         rank |-> rank, kappa |-> kappa]]

\* FloraAdam.__init__: no argument is checked, the call always returns.
Construct(layout, lr, betas, rank, kappa, seed) ==
    /\ ~constructed
    /\ constructed' = TRUE
    /\ param_groups' = MakeGroups(layout, lr, betas, rank, kappa)
    /\ state' = InitialState(param_groups', seed, requires_grad)
    /\ UNCHANGED << shape, requires_grad, grad, value, raised, loss,
                    closureLog, calls, gradCalls, initMode, lastMode >>
    /\ UNCHANGED polVars

---------------------------------------------------------------------------
(* step(), lines 78-220 *)

\* The two loops of lines 86-218 from position i of the iteration order on:
\* each parameter is updated in turn and an exception ends the call, leaving
\* the parameters after it as they were.
RECURSIVE RunLoop(_, _, _, _, _)
RunLoop(order, i, g, st, val) ==
    IF i > Len(order)
    THEN [state |-> st, value |-> val, raised |-> NoError, last |-> Len(order)]
    ELSE LET gi == order[i][1]
             p  == order[i][2]
             o  == UpdateParam(param_groups[gi], shape[p], g[p], st[p], val[p])
             st1  == [st EXCEPT ![p] = o.s]
             val1 == [val EXCEPT ![p] = o.v]
         IN  IF o.err # NoError
             THEN [state |-> st1, value |-> val1, raised |-> o.err, last |-> i]
             ELSE RunLoop(order, i + 1, g, st1, val1)

\* The group dict a parameter belongs to.
GroupOf(p) ==
    LET order == IterationOrder(param_groups, 1)
    IN  param_groups[order[CHOOSE j \in 1..Len(order) : order[j][2] = p][1]]

\* The parameters whose update a call ending at position `last` of the
\* iteration order has entered: those with a gradient up to that position.
Entered(g, last) ==
    LET order == IterationOrder(param_groups, 1)
    IN  { p \in Params : /\ g[p] # None
                         /\ \E j \in 1..last : order[j][2] = p }

\* The log of a step() call: whether a closure was supplied and, for each
\* invocation of it, whether it ran on the parameters and optimizer state as
\* they were when step() was entered and what it returned.
CallLog(given, runs) == [given |-> given, runs |-> runs]

\* The log before any step() call.
NoCall == CallLog(FALSE, << >>)

\* RunClosure with the closure called a second time.
RunClosure_Twice(closure, st, val) ==
    IF closure = None THEN << >>
    ELSE << [seen |-> [state |-> st, value |-> val], ret |-> closure[1].loss],
            [seen |-> [state |-> st, value |-> val], ret |-> closure[1].loss] >>

\* Lines 82-84: `if closure is not None: loss = closure()`, one call, made
\* with the parameters' values `val` and the optimizer's state `st`; each
\* invocation is listed with what it saw and what it returned.
RunClosure(closure, st, val) ==
    IF closure = None THEN << >>
    ELSE << [seen |-> [state |-> st, value |-> val], ret |-> closure[1].loss] >>

\* step(closure): a closure, when given, runs first (lines 81-84) and leaves
\* the gradients it computed in p.grad; the loops then read p.grad. The loss
\* is returned at line 220, which an exception in the loops never reaches.
Step(closure) ==
    /\ constructed
    /\ calls < MaxCalls
    /\ LET inv == RunClosure(closure, state, value)
           g == IF closure = None THEN grad ELSE closure[1].grads
       IN  \E r \in { RunLoop(IterationOrder(param_groups, 1), 1, g,
                               state, value) } :
           /\ grad' = g
           /\ closureLog' = CallLog(closure # None,
                  [i \in 1..Len(inv) |->
                      [first |-> inv[i].seen = [state |-> state, value |-> value],
                       ret |-> inv[i].ret]])
           /\ state' = r.state
           /\ value' = r.value
           /\ raised' = r.raised
           /\ loss' = IF r.raised # NoError \/ Len(inv) = 0 THEN None
                      ELSE Some(inv[Len(inv)].ret)
           /\ lastMode' = [p \in Params |->
                  IF p \in Entered(g, r.last)
                  THEN Some(should_compress(GroupOf(p).rank, shape[p]).value)
                  ELSE lastMode[p]]
           /\ initMode' = [p \in Params |->
                  IF p \in Entered(g, r.last) /\ "step" \notin DOMAIN state[p]
                  THEN Some(should_compress(GroupOf(p).rank, shape[p]).value)
                  ELSE initMode[p]]
           /\ gradCalls' = [p \in Params |->
                  IF g[p] # None THEN gradCalls[p] + 1 ELSE gradCalls[p]]
    /\ calls' = calls + 1
    /\ UNCHANGED << constructed, param_groups, shape, requires_grad >>
    /\ UNCHANGED polVars

---------------------------------------------------------------------------
(* The caller between two step() calls *)

\* loss.backward() / zero_grad(): every parameter's grad is replaced; only a
\* parameter that requires a gradient can receive one.
Backward(g) ==
    /\ constructed
    /\ calls < MaxCalls
    /\ \A p \in Params : g[p] # None => requires_grad[p]
    /\ g # grad
    /\ grad' = g
    /\ UNCHANGED << constructed, param_groups, state, shape, requires_grad,
                    value, raised, loss, closureLog, calls, gradCalls,
                    initMode, lastMode >>
    /\ UNCHANGED polVars

\* p.requires_grad_(True) on a parameter that was frozen at construction,
\* before one of the step() calls explored.
Unfreeze(p) ==
    /\ constructed
    /\ calls < MaxCalls
    /\ ~requires_grad[p]
    /\ requires_grad' = [requires_grad EXCEPT ![p] = TRUE]
    /\ UNCHANGED << constructed, param_groups, state, shape, grad, value,
                    raised, loss, closureLog, calls, gradCalls, initMode,
                    lastMode >>
    /\ UNCHANGED polVars

\* `for group in optimizer.param_groups: group["rank"] = r`: the caller
\* rewrites the entry of the group dicts that line 94 reads at every call
\* (before one of the step() calls explored).
SetRank(r) ==
    /\ constructed
    /\ calls < MaxCalls
    /\ \E gi \in 1..Len(param_groups) : param_groups[gi].rank # r
    /\ param_groups' = [gi \in 1..Len(param_groups) |->
                          [param_groups[gi] EXCEPT !.rank = r]]
    /\ UNCHANGED << constructed, state, shape, requires_grad, grad, value,
                    raised, loss, closureLog, calls, gradCalls, initMode,
                    lastMode >>
    /\ UNCHANGED polVars

---------------------------------------------------------------------------
(* Specification of the optimizer *)

PolIdle ==
    /\ polRank = None
    /\ polShape = << >>
    /\ polDone = FALSE
    /\ polResult = Returned(FALSE)

Init ==
    /\ constructed = FALSE
    /\ param_groups = << >>
    /\ state = [p \in Params |-> EmptyDict]
    /\ shape \in ShapeChoices
    /\ requires_grad \in [Params -> BOOLEAN]
    /\ grad = [p \in Params |-> None]
    /\ value = [p \in Params |-> << >>]
    /\ raised = NoError
    /\ loss = None
    /\ closureLog = NoCall
    /\ calls = 0
    /\ gradCalls = [p \in Params |-> 0]
    /\ initMode = [p \in Params |-> None]
    /\ lastMode = [p \in Params |-> None]
    /\ PolIdle

Next ==
    \/ \E layout \in Layouts, c \in Configs :
          Construct(layout, c.lr, c.betas, c.rank, c.kappa, c.seed)
    \/ \E g \in [Params -> {None} \cup {Some(x) : x \in GradVals}] : Backward(g)
    \/ \E p \in Params : Unfreeze(p)
    \/ \E r \in EditRanks : SetRank(r)
    \/ \E c \in {None} \cup {Some(x) : x \in Closures(requires_grad)} : Step(c)

Spec == Init /\ [][Next]_vars

---------------------------------------------------------------------------
(* Specification of the compression policy alone *)

\* Ranks and shapes handed to _should_compress: shapes of 0 to 3 dimensions,
\* with dimensions around the rank and around the ratio 4, and the shapes
\* (4096, 128) and (256, 64).
PolRanks == { None } \cup { Some(r) : r \in (0 - 1)..9 }

PolDims == { 0, 1, 2, 3, 8, 9, 32, 33 }

PolShapes ==
    { << >> }
    \cup { <<a>> : a \in PolDims }
    \cup { <<a, b>> : a \in PolDims, b \in PolDims }
    \cup { <<a, b, c>> : a \in { 2, 8 }, b \in { 2, 8 }, c \in { 2, 8 } }
    \cup { <<4096, 128>>, <<256, 64>>, <<128, 4096>>, <<64, 256>> }

PolicyInit ==
    /\ constructed = FALSE
    /\ param_groups = << >>
    /\ state = [p \in Params |-> EmptyDict]
    /\ shape = (1 :> <<2, 4>>) @@ (2 :> <<3>>)
    /\ requires_grad = [p \in Params |-> TRUE]
    /\ grad = [p \in Params |-> None]
    /\ value = [p \in Params |-> << >>]
    /\ raised = NoError
    /\ loss = None
    /\ closureLog = NoCall
    /\ calls = 0
    /\ gradCalls = [p \in Params |-> 0]
    /\ initMode = [p \in Params |-> None]
    /\ lastMode = [p \in Params |-> None]
    /\ polRank \in PolRanks
    /\ polShape \in PolShapes
    /\ polDone = FALSE
    /\ polResult = Returned(FALSE)

\* One call of FloraAdam._should_compress({"rank": polRank}, polShape).
PolicyApply ==
    /\ ~polDone
    /\ polResult' = should_compress(polRank, polShape)
    /\ polDone' = TRUE
    /\ UNCHANGED << polRank, polShape >>
    /\ UNCHANGED optVars

PolicyNext == PolicyApply

SpecPolicy == PolicyInit /\ [][PolicyNext]_vars

---------------------------------------------------------------------------
(* Vocabulary of the properties *)

\* The step counter of a parameter, 0 while its state is uninitialized.
StepOf(st, p) == IF "step" \in DOMAIN st[p] THEN st[p]["step"] ELSE 0

\* The seed of a parameter, None when its state dict holds none.
SeedOf(st, p) == IF "seed" \in DOMAIN st[p] THEN Some(st[p]["seed"]) ELSE None

Initialized(st, p) == "step" \in DOMAIN st[p]

\* Tensor t has undergone the in-place operation `name`.
HasOp(t, name) == \E i \in 1..Len(t.val) : t.val[i].op = name

\* k divides t (t mod k == 0, for k # 0).
Divides(k, t) == \E q \in (0 - t)..t : t = q * k

\* A step() call is being taken.
StepTaken == calls' = calls + 1

\* The outcome of the policy for parameter p with its group's present rank.
PolicyNow(p) == should_compress(GroupOf(p).rank, shape[p]).value

---------------------------------------------------------------------------
(* C1 *)

\* C1: the compressed/full mode chosen when a parameter's state is
\* initialized is the mode every later update of that parameter uses.
C1_ModeFixedAtInit ==
    \A p \in Params : lastMode[p] # None => lastMode[p] = initMode[p]

---------------------------------------------------------------------------
(* C2 *)

\* The arguments the constructor is documented to reject.
InvalidArgs(g) ==
    \/ g.rank # None /\ g.rank[1] <= 0
    \/ g.kappa <= 0
    \/ g.lr = None
    \/ g.lr # None /\ g.lr[1] <= 0
    \/ \E i \in 1..2 : ~(0 <= g.betas[i] /\ g.betas[i] < 1000)

\* C2: construction with a rank <= 0, a kappa <= 0, an lr unset or <= 0 or a
\* beta outside [0,1) fails and yields no optimizer instance.
C2_InvalidArgsRejected ==
    [][(~constructed /\ constructed') =>
          \A gi \in 1..Len(param_groups') : ~InvalidArgs(param_groups'[gi])]_vars

---------------------------------------------------------------------------
(* C3 *)

\* C3: for a parameter in compressed mode, the seed changes during its t-th
\* update (the t-th call made while it has a gradient) iff t mod kappa == 0.
C3_RotationCadence ==
    [][\A p \in Params :
          ( /\ StepTaken
            /\ grad'[p] # None
            /\ IF Initialized(state, p) THEN initMode[p] = Some(TRUE)
                                        ELSE PolicyNow(p) )
          => ( SeedOf(state', p) # SeedOf(state, p)
               <=> Divides(GroupOf(p).kappa, gradCalls'[p]) )]_vars

---------------------------------------------------------------------------
(* C4 *)

\* C4: a parameter's step counter equals the number of step() calls made so
\* far in which it had a gradient.
C4_StepCountsGradCalls ==
    \A p \in Params : StepOf(state, p) = gradCalls[p]

---------------------------------------------------------------------------
(* C5 *)

\* C5: a step() call leaves a parameter without a gradient untouched: its
\* state dict (step, seed, moments, initialized or not) and its value.
C5_NoGradUntouched ==
    [][\A p \in Params :
          (StepTaken /\ grad'[p] = None)
          => (state'[p] = state[p] /\ value'[p] = value[p])]_vars

\* A parameter updated once and skipped by another call, beside a parameter
\* that both calls updated.
C5_Witness ==
    \E p \in Params, q \in Params :
        /\ calls = 2
        /\ gradCalls[p] = 1 /\ StepOf(state, p) = 1 /\ Len(value[p]) = 1
        /\ gradCalls[q] = 2 /\ StepOf(state, q) = 2 /\ Len(value[q]) = 2

---------------------------------------------------------------------------
(* C6 *)

\* C6: after construction a parameter's seed changes only inside an update
\* that runs the compressed path and whose post-increment step is a multiple
\* of kappa; an update on the full path leaves the seed as it was.
C6_SeedChangesOnlyOnRotation ==
    [][constructed =>
        \A p \in Params :
          /\ SeedOf(state', p) # SeedOf(state, p)
             => ( /\ StepTaken
                  /\ grad'[p] # None
                  /\ PolicyNow(p)
                  /\ Divides(GroupOf(p).kappa, StepOf(state', p)) )
          /\ (StepTaken /\ grad'[p] # None /\ ~PolicyNow(p))
             => SeedOf(state', p) = SeedOf(state, p)]_vars

\* A parameter whose subspace has been rotated, beside one that has been
\* updated on the full path and still holds the seed it was given.
C6_Witness ==
    \E p \in Params, q \in Params :
        /\ Initialized(state, p) /\ HasOp(state[p]["exp_avg"], "copy_")
        /\ Initialized(state, q) /\ lastMode[q] = Some(FALSE)
        /\ Len(value[q]) > 0
        /\ SeedOf(state, q) # None

---------------------------------------------------------------------------
(* C7 *)

\* C7: once construction has succeeded no step() call ends in an error; in
\* particular the seed read and the rotation test are always defined.
C7_StepNeverRaises == raised = NoError

---------------------------------------------------------------------------
(* C8 *)

\* The position of parameter p in the iteration order over the groups.
Ordinal(groups, p) ==
    LET order == IterationOrder(groups, 1)
    IN  CHOOSE j \in 1..Len(order) : order[j][2] = p

\* C8: construction gives every trainable parameter the seed base + ordinal
\* (its position in the iteration order over all groups), so the seeds of
\* distinct trainable parameters differ and increase along that order.
C8_InitialSeeds ==
    [][(~constructed /\ constructed') =>
        /\ \E base \in BaseSeeds :
             \A p \in Params : requires_grad[p] =>
                 SeedOf(state', p) = Some(base + Ordinal(param_groups', p))
        /\ \A p \in Params, q \in Params :
             ( /\ requires_grad[p] /\ requires_grad[q]
               /\ Ordinal(param_groups', p) < Ordinal(param_groups', q) )
             => ( /\ SeedOf(state', p) # None /\ SeedOf(state', q) # None
                  /\ state'[p]["seed"] < state'[q]["seed"] )]_vars

\* Two trainable parameters in two groups just after construction with a
\* non-zero base seed, the parameter of the first group holding the smaller
\* seed.
C8_Witness ==
    /\ constructed /\ calls = 0
    /\ Len(param_groups) = 2
    /\ \A p \in Params : requires_grad[p] /\ SeedOf(state, p) # None
    /\ state[2]["seed"] = 6 /\ state[1]["seed"] = 7

---------------------------------------------------------------------------
(* C9 *)

\* The rank-reduced shape of a 2-dimensional shape.
Reduced(rank, sh) ==
    IF sh[1] < sh[2] THEN << rank, sh[2] >> ELSE << sh[1], rank >>

\* C9: the update that initializes a parameter's state gives exp_avg_sq the
\* gradient's shape and exp_avg the gradient's shape when the parameter is
\* uncompressed, the rank-reduced shape when it is compressed; no later step
\* (rotations included) changes either shape.
C9_MomentShapes ==
    [][\A p \in Params :
        /\ (~Initialized(state, p) /\ Initialized(state', p))
           => ( /\ state'[p]["exp_avg_sq"].shape = shape[p]
                /\ state'[p]["exp_avg"].shape =
                       IF PolicyNow(p)
                       THEN Reduced(GroupOf(p).rank[1], shape[p])
                       ELSE shape[p] )
        /\ Initialized(state, p)
           => ( /\ Initialized(state', p)
                /\ state'[p]["exp_avg_sq"].shape = state[p]["exp_avg_sq"].shape
                /\ state'[p]["exp_avg"].shape = state[p]["exp_avg"].shape )]_vars

\* A wide and a tall parameter, both compressed and both rotated, whose
\* first moments are smaller than the gradient while the second moments have
\* the gradient's shape.
C9_Witness ==
    /\ \A p \in Params :
         /\ Initialized(state, p)
         /\ HasOp(state[p]["exp_avg"], "copy_")
         /\ state[p]["exp_avg_sq"].shape = shape[p]
    /\ state[1]["exp_avg"].shape = <<4, 1>>
    /\ state[2]["exp_avg"].shape = <<1, 4>>

---------------------------------------------------------------------------
(* C10 *)

\* C10: should_compress returns true iff the rank is set and > 0, the shape
\* has exactly 2 dimensions, min(shape) >= rank and max(shape)/min(shape)
\* <= 4; (4096, 128) with rank 8 gives false.
C10_PolicyIff ==
    polDone =>
        /\ polResult.raised = NoError
        /\ polResult.value <=>
              ( /\ polRank # None
                /\ polRank[1] > 0
                /\ Len(polShape) = 2
                /\ \A i \in 1..2 : polShape[i] >= polRank[1]
                /\ \A i \in 1..2, j \in 1..2 : polShape[i] <= 4 * polShape[j] )
        /\ (polRank = Some(8) /\ polShape = <<4096, 128>>)
              => ~polResult.value

\* (256, 64) with rank 8: the ratio is exactly 4 and the result is true.
C10_Witness ==
    /\ polDone
    /\ polRank = Some(8)
    /\ polShape = <<256, 64>>
    /\ polResult = Returned(TRUE)

---------------------------------------------------------------------------
(* C11 *)

\* C11: in each step() call a supplied closure is invoked exactly once, and
\* before any parameter or optimizer state is modified in that call; a call
\* that returns gives back the value the closure returned, and None when no
\* closure is supplied.
C11_ClosureOnceFirst ==
    [][StepTaken =>
        /\ closureLog'.given
           => ( /\ Len(closureLog'.runs) = 1
                /\ closureLog'.runs[1].first )
        /\ ~closureLog'.given => closureLog'.runs = << >>
        /\ raised' = NoError
           => loss' = IF closureLog'.given
                      THEN Some(closureLog'.runs[1].ret)
                      ELSE None]_vars

\* A first step() call, made with a closure, that updated both parameters
\* and returned the closure's loss.
C11_Witness ==
    /\ calls = 1
    /\ closureLog.given /\ Len(closureLog.runs) = 1
    /\ raised = NoError
    /\ loss = Some(1)
    /\ \A p \in Params : StepOf(state, p) = 1 /\ Len(value[p]) = 1

---------------------------------------------------------------------------
(* C12 *)

\* The operations on the first moment of p recorded before the present step.
OpsBefore(st, p) == IF Initialized(st, p) THEN st[p]["exp_avg"].val ELSE << >>

\* C12: an update in which the rotation is performed projects the gradient
\* and updates the parameter with the seed stored before the update, then
\* replaces exp_avg by down_proj(next, up_proj(old, exp_avg)) with
\* next = next_seed(old), and then stores next; every compressed update
\* projects with the seed stored when it starts, so the update after a
\* rotation is the first one to use next.
C12_RotationOrder ==
    [][\A p \in Params :
        (StepTaken /\ Initialized(state', p)) =>
          LET before == OpsBefore(state, p)
              after  == state'[p]["exp_avg"].val
              new    == SubSeq(after, Len(before) + 1, Len(after))
              upd    == SubSeq(value'[p], Len(value[p]) + 1, Len(value'[p]))
              old    == SeedOf(state, p)
          IN  /\ \A i \in 1..Len(new) :
                    (new[i].op = "add_" /\ new[i].arg[2] # NoSeed)
                    => Some(new[i].arg[2]) = old
              /\ \A i \in 1..Len(upd) :
                    upd[i].arg[3] # NoSeed => Some(upd[i].arg[3]) = old
              /\ (\E i \in 1..Len(new) : new[i].op = "copy_")
                 => ( /\ old # None
                      /\ Len(new) = 3
                      /\ new[1].op = "mul_"
                      /\ new[2].op = "add_" /\ new[2].arg[2] = old[1]
                      /\ new[3].op = "copy_"
                      /\ new[3].arg = << old[1], next_seed(old[1]) >>
                      /\ Len(upd) = 1 /\ upd[1].arg[3] = old[1]
                      /\ SeedOf(state', p) = Some(next_seed(old[1])) )
              /\ SeedOf(state', p) # old
                 => (\E i \in 1..Len(new) : new[i].op = "copy_")]_vars

\* A parameter rotated in its second update and updated a third time: the
\* first two updates projected with the seed given at construction, the
\* rotation went from that seed to the next, the third update projected with
\* the next seed, which is the seed now stored.
C12_Witness ==
    \E p \in Params :
        /\ Initialized(state, p)
        /\ Len(value[p]) = 3
        /\ LET ops == state[p]["exp_avg"].val
           IN  /\ Len(ops) = 7
               /\ ops[5].op = "copy_"
               /\ ops[2].arg[2] = ops[5].arg[1]
               /\ ops[4].arg[2] = ops[5].arg[1]
               /\ ops[5].arg[2] = next_seed(ops[5].arg[1])
               /\ ops[7].op = "add_" /\ ops[7].arg[2] = ops[5].arg[2]
               /\ value[p][2].arg[3] = ops[5].arg[1]
               /\ value[p][3].arg[3] = ops[5].arg[2]
               /\ SeedOf(state, p) = Some(ops[5].arg[2])

---------------------------------------------------------------------------
(* C13 *)

\* The orders in which the (group, parameter) pairs of `order` can be
\* processed.
Orderings(order) ==
    LET n == Len(order)
    IN  { [i \in 1..n |-> order[f[i]]] :
            f \in { h \in [1..n -> 1..n] :
                      \A i \in 1..n, j \in 1..n : h[i] = h[j] => i = j } }

\* C13: the update of one parameter touches only that parameter's value and
\* state, so the state and the values reached after a step() call are the
\* same for every order in which the parameters are processed.
C13_OrderIndependent ==
    [][StepTaken =>
        \A perm \in Orderings(IterationOrder(param_groups, 1)) :
            LET r == RunLoop(perm, 1, grad', state, value)
            IN  r.state = state' /\ r.value = value']_vars

---------------------------------------------------------------------------
(* C14 *)

\* Sequence a is an initial part of sequence b.
IsPrefix(a, b) == Len(a) <= Len(b) /\ SubSeq(b, 1, Len(a)) = a

\* The moment is a zero-filled tensor that has undergone at most the
\* operations of one update: a decay, the accumulation of a gradient and,
\* for a first moment, a rotation.
FromZeros(t, accumulate) ==
    /\ Len(t.val) <= 3
    /\ Len(t.val) >= 1 => t.val[1].op = "mul_"
    /\ Len(t.val) >= 2 => t.val[2].op = accumulate
    /\ Len(t.val) >= 3 => t.val[3].op = "copy_"

\* C14: a parameter's state is initialized exactly once, in the first
\* step() call in which it has a gradient: that call sets step to 0 and
\* zero-fills both moments just before the first update (which leaves step
\* at 1), and no later call resets step, re-zeroes or re-allocates the
\* moments.
C14_InitializedOnce ==
    [][\A p \in Params :
        /\ (StepTaken /\ grad'[p] # None /\ gradCalls[p] = 0)
           => ( /\ ~Initialized(state, p)
                /\ Initialized(state', p)
                /\ state'[p]["step"] = 1
                /\ FromZeros(state'[p]["exp_avg"], "add_")
                /\ FromZeros(state'[p]["exp_avg_sq"], "addcmul_") )
        /\ (~Initialized(state, p) /\ Initialized(state', p))
           => (StepTaken /\ grad'[p] # None /\ gradCalls[p] = 0)
        /\ Initialized(state, p)
           => ( /\ Initialized(state', p)
                /\ state'[p]["step"] >= state[p]["step"]
                /\ state'[p]["step"] >= 1
                /\ \A m \in {"exp_avg", "exp_avg_sq"} :
                      /\ state'[p][m].shape = state[p][m].shape
                      /\ IsPrefix(state[p][m].val, state'[p][m].val) )]_vars

---------------------------------------------------------------------------
(* C16 *)

\* C16: the bias corrections of an update are taken at the post-increment
\* step count t >= 1; the first update of a parameter uses t = 1, so
\* bc1 = 1 - beta1 and, with beta1 = 0.9, corrected_avg = 10 x exp_avg; for
\* betas in [0,1) neither bc1 nor bc2 is zero.
C16_BiasCorrectionStep ==
    [][\A p \in Params :
        StepTaken =>
          LET upd   == SubSeq(value'[p], Len(value[p]) + 1, Len(value'[p]))
              betas == GroupOf(p).betas
          IN  \A i \in 1..Len(upd) :
                LET t   == upd[i].arg[1]
                    bc1 == upd[i].arg[5]
                    bc2 == upd[i].arg[6]
                IN  /\ t >= 1
                    /\ t = StepOf(state, p) + 1
                    /\ t = state'[p]["step"]
                    /\ ~Initialized(state, p)
                       => ( /\ t = 1
                            /\ bc1 = 1000 - betas[1]
                            /\ betas[1] = 900 => 10 * bc1 = 1000 )
                    /\ (0 <= betas[1] /\ betas[1] < 1000) => bc1 > 0
                    /\ (0 <= betas[2] /\ betas[2] < 1000) => bc2 > 0]_vars

\* A parameter updated twice with the default betas: the first update was
\* corrected by 1 - 0.9 and 1 - 0.999, the second by 1 - 0.81 and
\* 1 - 0.999 ** 2.
C16_Witness ==
    \E p \in Params :
        /\ Len(value[p]) >= 2
        /\ value[p][1].arg[1] = 1
        /\ value[p][1].arg[5] = 100 /\ value[p][1].arg[6] = 1
        /\ value[p][2].arg[1] = 2
        /\ value[p][2].arg[5] = 190 /\ value[p][2].arg[6] = 2

---------------------------------------------------------------------------
(* C15 *)

\* The reference: the state of standard Adam for one parameter (its step
\* count, its two moments and the parameter's value), in the encoding of
\* the model. A parameter never updated has step 0 and zero moments.
AdamInit(sh) ==
    [step |-> 0,
     exp_avg |-> [shape |-> sh, val |-> << >>],
     exp_avg_sq |-> [shape |-> sh, val |-> << >>],
     param |-> << >>]

\* One update of standard Adam with gradient g:
\*   t = t + 1;  m = beta1 m + (1 - beta1) g;  v = beta2 v + (1 - beta2) g g;
\*   p = p - lr (m / (1 - beta1^t)) / (sqrt(v / (1 - beta2^t)) + eps).
AdamStep(lr, betas, eps, g, a) ==
    LET t == a.step + 1
    IN  [step |-> t,
         exp_avg |->
            [a.exp_avg EXCEPT !.val =
                @ \o << [op |-> "mul_", arg |-> << betas[1] >>],
                        [op |-> "add_",
                         arg |-> << g, NoSeed, 1000 - betas[1] >>] >>],
         exp_avg_sq |->
            [a.exp_avg_sq EXCEPT !.val =
                @ \o << [op |-> "mul_", arg |-> << betas[2] >>],
                        [op |-> "addcmul_",
                         arg |-> << g, g, 1000 - betas[2] >>] >>],
         param |-> Append(a.param,
                     [op |-> "addcdiv_",
                      arg |-> << t, lr, NoSeed, eps,
                                 1000 - Pow(betas[1], t),
                                 1000 - Pow(betas[2], t) >>])]

\* The arguments standard Adam accepts.
ValidForAdam(g) ==
    /\ g.lr # None /\ g.lr[1] >= 0
    /\ \A i \in 1..2 : 0 <= g.betas[i] /\ g.betas[i] < 1000
    /\ g.eps >= 0

\* The part of the optimizer's state and of parameter p's value that the
\* reference has a counterpart for.
AdamView(st, val, p) ==
    IF ~Initialized(st, p)
    THEN [AdamInit(shape[p]) EXCEPT !.param = val[p]]
    ELSE [step |-> st[p]["step"],
          exp_avg |-> st[p]["exp_avg"],
          exp_avg_sq |-> st[p]["exp_avg_sq"],
          param |-> val[p]]

\* Parameter p is in a state the reference can be in after as many updates
\* as p's step count: full-shaped moments, one parameter update per step and
\* no projected gradient in the first moment.
AdamState(st, val, p) ==
    LET a == AdamView(st, val, p)
    IN  /\ a.exp_avg.shape = shape[p]
        /\ a.exp_avg_sq.shape = shape[p]
        /\ Len(a.param) = a.step
        /\ Len(a.exp_avg.val) = 2 * a.step
        /\ Len(a.exp_avg_sq.val) = 2 * a.step
        /\ \A i \in 1..Len(a.exp_avg.val) :
              a.exp_avg.val[i].op = "add_" => a.exp_avg.val[i].arg[2] = NoSeed
        /\ \A i \in 1..Len(a.param) : a.param[i].arg[3] = NoSeed

\* C15: with rank unset and arguments standard Adam accepts, a step() call
\* made in a state matching the reference leaves a state matching the
\* reference after one more update of every parameter with a gradient: the
\* call does not raise, every such parameter takes the full path, its
\* moments and its value are those of the reference (plain Adam moments of
\* the raw gradient, the update lr (m / bc1) / (sqrt(v / bc2) + eps)), and
\* no seed changes.
C15_MatchesAdam ==
    [][( /\ StepTaken
         /\ \A gi \in 1..Len(param_groups) :
               /\ param_groups[gi].rank = None
               /\ ValidForAdam(param_groups[gi])
         /\ \A p \in Params : AdamState(state, value, p) )
       => /\ raised' = NoError
          /\ \A p \in Params :
                /\ AdamState(state', value', p)
                /\ SeedOf(state', p) = SeedOf(state, p)
                /\ IF grad'[p] = None
                   THEN AdamView(state', value', p) = AdamView(state, value, p)
                   ELSE /\ lastMode'[p] = Some(FALSE)
                        /\ AdamView(state', value', p) =
                              AdamStep(GroupOf(p).lr[1], GroupOf(p).betas,
                                       GroupOf(p).eps, grad'[p][1],
                                       AdamView(state, value, p))]_vars

\* Rank unset: both parameters have been updated three times on the full
\* path and hold the reference's state after three updates.
C15_Witness ==
    /\ constructed
    /\ \A gi \in 1..Len(param_groups) :
          param_groups[gi].rank = None /\ ValidForAdam(param_groups[gi])
    /\ raised = NoError
    /\ \A p \in Params :
          /\ lastMode[p] = Some(FALSE)
          /\ AdamView(state, value, p) =
                LET h == GroupOf(p)
                IN  AdamStep(h.lr[1], h.betas, h.eps, 1,
                      AdamStep(h.lr[1], h.betas, h.eps, 1,
                        AdamStep(h.lr[1], h.betas, h.eps, 1,
                                 AdamInit(shape[p]))))

---------------------------------------------------------------------------
(* C17 *)

\* next_seed applied k times to seed.
RECURSIVE NextSeedTimes(_, _)
NextSeedTimes(seed, k) ==
    IF k <= 0 THEN seed ELSE next_seed(NextSeedTimes(seed, k - 1))

\* C17: for a compressed parameter (kappa > 0), the seed stored after n
\* step() calls made while it had a gradient is next_seed applied
\* floor(n / kappa) times to the seed construction gave it, whatever the
\* gradients, lr and parameter values.
C17_SeedTrajectory ==
    \A p \in Params :
        ( /\ constructed
          /\ SeedOf(state, p) # None
          /\ GroupOf(p).kappa > 0
          /\ IF Initialized(state, p) THEN initMode[p] = Some(TRUE)
                                      ELSE PolicyNow(p) )
        => \E base \in BaseSeeds :
              state[p]["seed"] =
                  NextSeedTimes(base + Ordinal(param_groups, p),
                                gradCalls[p] \div GroupOf(p).kappa)

---------------------------------------------------------------------------
(* C18 *)

\* C18: should_compress is total: for every rank (unset, zero, negative or
\* positive) and every shape, 0-dimensional shapes and shapes with a
\* zero-sized dimension included, it returns a boolean and raises nothing;
\* whenever the shape is not 2-dimensional, or the rank is unset or not
\* positive, or a dimension is below the rank, the result is false.
C18_PolicyTotal ==
    polDone =>
        /\ polResult.raised = NoError
        /\ polResult.value \in BOOLEAN
        /\ ( \/ polRank = None
             \/ polRank # None /\ polRank[1] <= 0
             \/ Len(polShape) # 2
             \/ \E i \in 1..Len(polShape) :
                   polRank # None /\ polShape[i] < polRank[1]
             \/ \E i \in 1..Len(polShape) : polShape[i] = 0 )
           => polResult.value = FALSE

\* The policy has been applied to a 0-dimensional shape with a positive
\* rank and returned false.
C18_Witness ==
    /\ polDone
    /\ polRank = Some(1)
    /\ polShape = << >>
    /\ polResult = Returned(FALSE)

====
